---- MODULE Spec2Model ----
(***************************************************************************)
(* Model of the Slurm submission toolkit (pyslurm / pyssub).               *)
(*                                                                         *)
(* Part 1: the submitter SBatch.__call__ of pyslurm/submit.py, together    *)
(* with the Slurm queue it talks to.  The external commands squeue and     *)
(* sbatch are the environment: njobs returns the number of lines squeue    *)
(* prints, submit returns the job ID sbatch prints, and either call may    *)
(* raise when the command exits non-zero.                                  *)
(*                                                                         *)
(* Part 2: the classification SBatch.status of pyslurm/submit.py.          *)
(***************************************************************************)
EXTENDS Integers, Sequences, FiniteSets, TLC

(* ---------------------------- bounds ----------------------------------- *)

\* largest number of entries of the job mapping handed to the submitter
MaxJobs == 3

\* largest ceiling (nmax) the submitter is constructed with
MaxNmax == 3

\* largest number of queued jobs of the user that are not of this run
MaxOther == 2

\* number of loop iterations of one run that are explored
MaxIter == 3

\* largest number of lines sacct prints for one status call
MaxLines == 2

\* largest number of blanks before and after the state in a line of sacct
MaxPad == 1

\* largest job ID sbatch reports to submit
MaxJobId == 12

\* largest number of rows squeue prints for numjobs
MaxRows == 4

\* largest number of fields set on a script after its construction
MaxFields == 2

\* largest number of jobs in a job history
MaxHist == 2

\* largest numbers of input and of output files a batch script transfers
MaxInputs == 9

MaxOutputs == 2

\* largest number of entries in a collection file
MaxEntries == 2

(* ------------------------- the input space ----------------------------- *)

NamePool == <<"a", "b", "c", "d", "e">>

ScriptPool == <<"sh_a", "sh_b", "sh_c", "sh_d", "sh_e">>

Min(x, y) == IF x <= y THEN x ELSE y

Max(x, y) == IF x >= y THEN x ELSE y

\* the script a job name is mapped to (one script per name)
ScriptOf(n) == ScriptPool[CHOOSE i \in DOMAIN NamePool : NamePool[i] = n]

\* A dict is the sequence of its items in insertion order.  Job names are
\* interchangeable, so the mappings are taken with their keys inserted in
\* the order of NamePool.
Mappings ==
    {[i \in 1..k |-> [name |-> NamePool[i], script |-> ScriptOf(NamePool[i])]] :
        k \in 0..Min(MaxJobs, Len(NamePool))}

Keys(d) == {d[i].name : i \in DOMAIN d}

\* states in which a job is still in the queue, and states it leaves it with
QueuedStates == {"PENDING", "RUNNING"}

TerminalStates == {"COMPLETED", "FAILED"}

(* ------------------------------ state ---------------------------------- *)

VARIABLES
    heap,       \* the two dict objects: "arg" (the caller's) and "copy"
    input,      \* the content of the caller's mapping when the run was called
    scripts,    \* the object the local variable `scripts` refers to
    jobids,     \* the local dict jobids: job name -> job ID
    nmax,       \* self.nmax
    pc,         \* position of the run: idle, while, njobs, for, done, raised
    exc,        \* the exception that ended the run, "none" otherwise
    nnew,       \* the local variable nnew
    todo,       \* iterations of `for _ in range(nnew)` still to run
    hist,       \* per iteration: depth queried, pool size then, jobs submitted
    slept,      \* a time.sleep(wait) has happened since the last queue query
    queue,      \* the scheduler: job ID -> [script, state]
    other,      \* queued jobs of the user that this run did not submit
    stdout,     \* status: the lines printed by sacct
    result,     \* status: the value returned ("unset" before the call)
    call,       \* the function called with its arguments ("none": no call)
    command,    \* the argument lists handed to subprocess.run, in order
    disk        \* the files written: file name -> content

gvars == <<heap, input, scripts, jobids, nmax, pc, exc, nnew, todo, hist,
           slept, queue, other>>

svars == <<stdout, result>>

avars == <<call, command, disk>>

vars == <<heap, input, scripts, jobids, nmax, pc, exc, nnew, todo, hist,
          slept, queue, other, stdout, result, call, command, disk>>

(* ----------------------------- scheduler ------------------------------- *)

JobIds == DOMAIN queue

Active == {j \in JobIds : queue[j].state \in QueuedStates}

\* the job ID sbatch assigns next
NextId == Cardinality(JobIds) + 1

\* SBatch.njobs: len(process.stdout.splitlines()) of `squeue -h -u user`
njobs == Cardinality(Active) + other

(* ------------------------------ the run -------------------------------- *)

\* (variant: the local name keeps referring to the caller's dict)
DictAlias == "arg"

\* scripts = dict(scripts): the object the local name is bound to
DictCopy == "copy"

\* (variant: returns the first item, removes the last)
PopItemPeekFirst(d) == [item |-> d[1], rest |-> SubSeq(d, 1, Len(d) - 1)]

\* (variant: returns the last item without removing it)
PopItemKeep(d) == [item |-> d[Len(d)], rest |-> d]

\* (variant: removes and returns the item inserted first)
PopItemFirst(d) == [item |-> d[1], rest |-> Tail(d)]

\* dict.popitem(): removes and returns the item inserted last
PopItem(d) == [item |-> d[Len(d)], rest |-> SubSeq(d, 1, Len(d) - 1)]

\* (variant: the queue depth is ignored)
HeadroomIgnoresDepth(ceiling, depth) == ceiling

\* (variant: the headroom is computed in the first iteration only)
HeadroomCached(ceiling, depth) ==
    IF Len(hist) = 0 THEN ceiling - depth ELSE nnew

\* nnew = self.nmax - self.njobs(userid, partition)
Headroom(ceiling, depth) == ceiling - depth

\* (variant: range(nnew + 1))
RangeLenInclusive(n) == IF n >= 0 THEN n + 1 ELSE 0

\* len(range(nnew))
RangeLen(n) == IF n > 0 THEN n ELSE 0

Init ==
    /\ input \in Mappings
    /\ heap = [o \in {"arg", "copy"} |-> IF o = "arg" THEN input ELSE <<>>]
    /\ scripts = "arg"
    /\ jobids = <<>>
    /\ nmax \in 0..MaxNmax
    /\ pc = "idle"
    /\ exc = "none"
    /\ nnew = 0
    /\ todo = 0
    /\ hist = <<>>
    /\ slept = FALSE
    /\ queue = <<>>
    /\ other \in 0..MaxOther
    /\ stdout = <<>>
    /\ result = "unset"
    /\ call = "none"
    /\ command = <<>>
    /\ disk = <<>>

\* lines 45-48: scripts = dict(scripts); jobids = {}
Call ==
    /\ pc = "idle"
    /\ scripts' = DictCopy
    /\ heap' = [heap EXCEPT ![DictCopy] = heap["arg"]]
    /\ jobids' = <<>>
    /\ pc' = "while"
    /\ UNCHANGED <<input, nmax, exc, nnew, todo, hist, slept, queue, other>>
    /\ UNCHANGED svars
    /\ UNCHANGED avars

\* line 50 and line 59: while len(scripts) > 0 ... return jobids
WhileTest ==
    /\ pc = "while"
    /\ pc' = IF Len(heap[scripts]) > 0 THEN "njobs" ELSE "done"
    /\ UNCHANGED <<heap, input, scripts, jobids, nmax, exc, nnew, todo, hist,
                   slept, queue, other>>
    /\ UNCHANGED svars
    /\ UNCHANGED avars

\* line 51: nnew = self.nmax - self.njobs(userid, partition)
QueryOk ==
    /\ pc = "njobs"
    /\ Len(hist) < MaxIter
    /\ nnew' = Headroom(nmax, njobs)
    /\ todo' = RangeLen(nnew')
    /\ hist' = Append(hist, [depth |-> njobs,
                             pending |-> Len(heap[scripts]),
                             admitted |-> 0])
    /\ slept' = FALSE
    /\ pc' = "for"
    /\ UNCHANGED <<heap, input, scripts, jobids, nmax, exc, queue, other>>
    /\ UNCHANGED svars
    /\ UNCHANGED avars

\* (variant: the failure of squeue is swallowed and the query is retried)
QueryFailsRetry ==
    /\ pc = "njobs"
    /\ Len(hist) < MaxIter
    /\ exc' = "CalledProcessError"
    /\ pc' = "while"
    /\ UNCHANGED <<heap, input, scripts, jobids, nmax, nnew, todo, hist,
                   slept, queue, other>>
    /\ UNCHANGED svars
    /\ UNCHANGED avars

\* line 51, squeue exits non-zero: subprocess.run(check=True) raises
QueryFails ==
    /\ pc = "njobs"
    /\ Len(hist) < MaxIter
    /\ exc' = "CalledProcessError"
    /\ pc' = "raised"
    /\ UNCHANGED <<heap, input, scripts, jobids, nmax, nnew, todo, hist,
                   slept, queue, other>>
    /\ UNCHANGED svars
    /\ UNCHANGED avars

\* lines 53-55, one pass of the for loop, sbatch accepts the script
SubmitOk ==
    /\ pc = "for"
    /\ todo > 0
    /\ Len(heap[scripts]) > 0
    /\ LET p == PopItem(heap[scripts])
       IN  /\ heap' = [heap EXCEPT ![scripts] = p.rest]
           /\ queue' = [j \in JobIds \cup {NextId} |->
                          IF j = NextId
                          THEN [script |-> p.item.script, state |-> "PENDING"]
                          ELSE queue[j]]
           /\ jobids' = [n \in DOMAIN jobids \cup {p.item.name} |->
                          IF n = p.item.name THEN NextId ELSE jobids[n]]
    /\ hist' = [hist EXCEPT ![Len(hist)].admitted = @ + 1]
    /\ todo' = todo - 1
    /\ UNCHANGED <<input, scripts, nmax, pc, exc, nnew, slept, other>>
    /\ UNCHANGED svars
    /\ UNCHANGED avars

\* lines 54-55, sbatch exits non-zero (CalledProcessError) or prints no
\* job ID (match is None: AttributeError); the item is already popped
SubmitFails ==
    /\ pc = "for"
    /\ todo > 0
    /\ Len(heap[scripts]) > 0
    /\ heap' = [heap EXCEPT ![scripts] = PopItem(heap[scripts]).rest]
    /\ exc' \in {"CalledProcessError", "AttributeError"}
    /\ pc' = "raised"
    /\ UNCHANGED <<input, scripts, jobids, nmax, nnew, todo, hist, slept,
                   queue, other>>
    /\ UNCHANGED svars
    /\ UNCHANGED avars

\* line 54 on an empty dict: popitem() raises KeyError
PopEmpty ==
    /\ pc = "for"
    /\ todo > 0
    /\ Len(heap[scripts]) = 0
    /\ exc' = "KeyError"
    /\ pc' = "raised"
    /\ UNCHANGED <<heap, input, scripts, jobids, nmax, nnew, todo, hist,
                   slept, queue, other>>
    /\ UNCHANGED svars
    /\ UNCHANGED avars

\* (variant: no sleep once the pool is empty, the run returns at once)
SleepOnlyIfPending ==
    /\ pc = "for"
    /\ todo = 0
    /\ slept' = (Len(heap[scripts]) > 0)
    /\ pc' = IF Len(heap[scripts]) > 0 THEN "while" ELSE "done"
    /\ UNCHANGED <<heap, input, scripts, jobids, nmax, exc, nnew, todo, hist,
                   queue, other>>
    /\ UNCHANGED svars
    /\ UNCHANGED avars

\* line 57: time.sleep(self.wait), after the for loop is exhausted
Sleep ==
    /\ pc = "for"
    /\ todo = 0
    /\ slept' = TRUE
    /\ pc' = "while"
    /\ UNCHANGED <<heap, input, scripts, jobids, nmax, exc, nnew, todo, hist,
                   queue, other>>
    /\ UNCHANGED svars
    /\ UNCHANGED avars

(* --------------------------- the environment --------------------------- *)

Running == pc \notin {"idle", "done", "raised"}

\* a pending job of this run starts to run
JobStarts ==
    /\ \E j \in JobIds :
          /\ queue[j].state = "PENDING"
          /\ queue' = [queue EXCEPT ![j].state = "RUNNING"]
    /\ UNCHANGED <<heap, input, scripts, jobids, nmax, pc, exc, nnew, todo,
                   hist, slept, other>>
    /\ UNCHANGED svars
    /\ UNCHANGED avars

\* a job of this run leaves the queue with a terminal state
JobEnds ==
    /\ \E j \in Active, s \in TerminalStates :
          queue' = [queue EXCEPT ![j].state = s]
    /\ UNCHANGED <<heap, input, scripts, jobids, nmax, pc, exc, nnew, todo,
                   hist, slept, other>>
    /\ UNCHANGED svars
    /\ UNCHANGED avars

\* another job of the user enters the queue
OtherArrives ==
    /\ Running
    /\ other < MaxOther
    /\ other' = other + 1
    /\ UNCHANGED <<heap, input, scripts, jobids, nmax, pc, exc, nnew, todo,
                   hist, slept, queue>>
    /\ UNCHANGED svars
    /\ UNCHANGED avars

\* another job of the user leaves the queue
OtherLeaves ==
    /\ Running
    /\ other > 0
    /\ other' = other - 1
    /\ UNCHANGED <<heap, input, scripts, jobids, nmax, pc, exc, nnew, todo,
                   hist, slept, queue>>
    /\ UNCHANGED svars
    /\ UNCHANGED avars

Next ==
    \/ Call
    \/ WhileTest
    \/ QueryOk
    \/ QueryFails
    \/ SubmitOk
    \/ SubmitFails
    \/ PopEmpty
    \/ Sleep
    \/ JobStarts
    \/ JobEnds
    \/ OtherArrives
    \/ OtherLeaves

Spec == Init /\ [][Next]_vars

TypeOK ==
    /\ pc \in {"idle", "while", "njobs", "for", "done", "raised"}
    /\ scripts \in {"arg", "copy"}
    /\ todo \in 0..MaxNmax
    /\ Len(hist) <= MaxIter

(* ------------------------ SBatch.status -------------------------------- *)

\* the state column sacct prints; a cancelled job may carry a suffix
SacctWords ==
    {<<w>> : w \in {"PENDING", "RUNNING", "COMPLETED", "FAILED", "CANCELLED",
                    "TIMEOUT"}}
    \cup {<<"CANCELLED", " ", "by", " ", "1000">>}

Blanks(k) == [i \in 1..k |-> " "]

\* a line of sacct: the state, right-aligned and padded with blanks
SacctLines ==
    {Blanks(l) \o w \o Blanks(r) : l \in 0..MaxPad, r \in 0..MaxPad,
                                   w \in SacctWords}

SacctOutputs == UNION {[1..k -> SacctLines] : k \in 0..MaxLines}

RECURSIVE LStrip(_)
LStrip(line) ==
    IF line # <<>> /\ Head(line) = " " THEN LStrip(Tail(line)) ELSE line

RECURSIVE RStrip(_)
RStrip(line) ==
    IF line # <<>> /\ line[Len(line)] = " "
    THEN RStrip(SubSeq(line, 1, Len(line) - 1))
    ELSE line

\* (variant: the line is compared as printed)
NoStrip(line) == line

\* str.strip()
Strip(line) == RStrip(LStrip(line))

\* lines 169-175: the three-way classification
Classify(status) ==
    IF status = <<"RUNNING">> THEN "RUNNING"
    ELSE IF status = <<"COMPLETED">> THEN "SUCCESS"
    ELSE "FAILED"

StatusInit ==
    /\ input = <<>>
    /\ heap = [o \in {"arg", "copy"} |-> <<>>]
    /\ scripts = "arg"
    /\ jobids = <<>>
    /\ nmax = 0
    /\ pc = "idle"
    /\ exc = "none"
    /\ nnew = 0
    /\ todo = 0
    /\ hist = <<>>
    /\ slept = FALSE
    /\ queue = <<>>
    /\ other = 0
    /\ stdout \in SacctOutputs
    /\ result = "unset"
    /\ call = "none"
    /\ command = <<>>
    /\ disk = <<>>

\* lines 159-175: sacct exits with 0 and prints at least one line
StatusOk ==
    /\ result = "unset"
    /\ Len(stdout) > 0
    /\ result' = Classify(Strip(stdout[1]))
    /\ UNCHANGED stdout
    /\ UNCHANGED gvars
    /\ UNCHANGED avars

\* line 167: splitlines()[0] on an empty output raises IndexError
StatusNoLine ==
    /\ result = "unset"
    /\ Len(stdout) = 0
    /\ result' = "IndexError"
    /\ UNCHANGED stdout
    /\ UNCHANGED gvars
    /\ UNCHANGED avars

\* lines 159-165: sacct exits non-zero, subprocess.run(check=True) raises
StatusFails ==
    /\ result = "unset"
    /\ result' = "CalledProcessError"
    /\ UNCHANGED stdout
    /\ UNCHANGED gvars
    /\ UNCHANGED avars

StatusNext ==
    \/ StatusOk
    \/ StatusNoLine
    \/ StatusFails

SpecStatus == StatusInit /\ [][StatusNext]_vars

(* ------------------- vocabulary of the properties ---------------------- *)

\* names of the jobs still in the pool of the run
pending == Keys(heap[scripts])

\* names of the submitted jobs that are still in the queue
inFlight == {n \in DOMAIN jobids : queue[jobids[n]].state \in QueuedStates}

\* names of the submitted jobs that have left the queue
completed == {n \in DOMAIN jobids : queue[jobids[n]].state \in TerminalStates}

\* iteration i of the loop has run to its sleep
Finished(i) ==
    \/ i < Len(hist)
    \/ pc \in {"while", "njobs", "done"}
    \/ pc = "for" /\ todo = 0

ProcessErrors == {"CalledProcessError", "AttributeError"}

Slots(i) == Max(0, nmax - hist[i].depth)

(* --------------------------- properties -------------------------------- *)

\* C1 (headroom invariant): in every iteration of the loop, whatever the
\* ceiling and the queue depth njobs reported (a depth above the ceiling
\* included), the number of jobs submitted in that iteration is at most
\* max(0, nmax - depth).
HeadroomInvariant ==
    \A i \in DOMAIN hist : hist[i].admitted <= Slots(i)

\* an iteration that found the queue above the ceiling has finished, and
\* another one has used up a positive headroom
HeadroomWitness ==
    /\ pc = "while"
    /\ \E i, j \in DOMAIN hist :
          /\ hist[i].depth > nmax
          /\ hist[j].admitted > 0
          /\ hist[j].admitted = nmax - hist[j].depth

\* C2 (as claimed): every iteration submits exactly
\* min(max(0, nmax - depth), number of pending jobs), and the run never
\* takes a job from an empty pool.
AdmitsExactly ==
    /\ \A i \in DOMAIN hist :
          Finished(i) => hist[i].admitted = Min(Slots(i), hist[i].pending)
    /\ exc # "KeyError"

\* C3 (as claimed, the part a finite run decides): as long as no squeue or
\* sbatch call fails the run does not end abnormally, and when it has
\* returned no job is pending.  (That no job is in flight then is C8.)
DrainCompleteness ==
    exc \notin ProcessErrors =>
        /\ pc # "raised"
        /\ pc = "done" => pending = {}

\* C4: when the run returns, the returned mapping has every job name of the
\* input, each mapped to the ID under which the scheduler holds that job's
\* script, no two names share an ID, and there were as many accepted
\* submissions as jobs; at no time is a script in the queue twice.
ReturnedMapping ==
    /\ pc = "done" =>
          /\ DOMAIN jobids = Keys(input)
          /\ \A n \in DOMAIN jobids :
                /\ jobids[n] \in JobIds
                /\ queue[jobids[n]].script = ScriptOf(n)
          /\ \A n, m \in DOMAIN jobids : jobids[n] = jobids[m] => n = m
          /\ Cardinality(JobIds) = Len(input)
    /\ \A j, k \in JobIds : queue[j].script = queue[k].script => j = k

\* a run over MaxJobs jobs has returned after more than one iteration
ReturnedWitness ==
    /\ pc = "done"
    /\ Len(input) = MaxJobs
    /\ Len(hist) > 1

\* C5: the caller's mapping always holds the entries it held when the run
\* was called, during the run and after it has returned or raised.
CallerUnchanged ==
    heap["arg"] = input

\* a run has raised after it took jobs out of its pool
CallerWitness ==
    /\ pc = "raised"
    /\ DOMAIN jobids # {}
    /\ Len(heap[scripts]) < Len(input)

\* C6: an iteration that finds the queue at or above the ceiling submits
\* nothing and leaves the pool as it is; an iteration that finds it below
\* the ceiling and runs to its sleep submits at least one job; and with 3
\* jobs, ceiling 2 and depths 2, 1, 0 the iterations submit 0, 1 and 2 jobs,
\* after which all 3 jobs are submitted and the run has not raised.
Scenario == <<[depth |-> 2, admitted |-> 0],
              [depth |-> 1, admitted |-> 1],
              [depth |-> 0, admitted |-> 2]>>

InScenario ==
    /\ Len(input) = 3
    /\ nmax = 2
    /\ Len(hist) <= 3
    /\ \A i \in DOMAIN hist : hist[i].depth = Scenario[i].depth

AtCeiling ==
    /\ \A i \in DOMAIN hist :
          hist[i].depth >= nmax =>
              /\ hist[i].admitted = 0
              /\ IF i < Len(hist)
                 THEN hist[i + 1].pending = hist[i].pending
                 ELSE Len(heap[scripts]) = hist[i].pending
    /\ \A i \in DOMAIN hist :
          (Finished(i) /\ hist[i].depth < nmax) => hist[i].admitted >= 1
    /\ (InScenario /\ exc \notin ProcessErrors) =>
          /\ exc = "none"
          /\ \A i \in DOMAIN hist :
                Finished(i) => hist[i].admitted = Scenario[i].admitted
          /\ (Len(hist) = 3 /\ Finished(3)) =>
                /\ Cardinality(DOMAIN jobids) = 3
                /\ pending = {}

\* the run of the scenario has returned
AtCeilingWitness ==
    /\ InScenario
    /\ Len(hist) = 3
    /\ pc = "done"

\* C7: every queue query but the first of a run comes after a sleep that
\* followed the query before it, and the number of passes of the for loop
\* is computed from the depth that this query returns.
NoBusySpin ==
    [][(pc = "njobs" /\ pc' = "for") =>
          /\ Len(hist) > 0 => slept
          /\ nnew' = nmax - njobs
          /\ todo' = Max(0, nmax - njobs)]_vars

\* a second query has returned a depth that differs from the first
NoBusySpinWitness ==
    /\ pc = "for"
    /\ Len(hist) >= 2
    /\ hist[Len(hist)].depth # hist[Len(hist) - 1].depth
    /\ hist[Len(hist)].admitted > 0

Reported == SelectSeq(stdout[1], LAMBDA t : t # " ")[1]

ClassificationCorrect ==
    (result \in {"RUNNING", "SUCCESS", "FAILED"}) =>
        /\ Reported = "COMPLETED" => result = "SUCCESS"
        /\ Reported \in {"FAILED", "CANCELLED", "TIMEOUT"} =>
              result = "FAILED"

\* status has classified a padded COMPLETED line
ClassificationWitness ==
    /\ result = "SUCCESS"
    /\ Len(stdout[1]) > 1

\* C14: a non-zero exit of sbatch or squeue during a run ends the run with
\* that error: from then on the run is at its raise, and it makes no
\* further submission, queue query or sleep and takes no job from its pool.
NoRetry ==
    [][exc = "CalledProcessError" =>
          /\ pc = "raised" /\ pc' = "raised"
          /\ exc' = exc
          /\ hist' = hist
          /\ slept' = slept
          /\ jobids' = jobids
          /\ heap' = heap
          /\ DOMAIN queue' = DOMAIN queue]_vars

\* sbatch has failed after a first job was submitted, with jobs left in
\* the pool
NoRetryWitness ==
    /\ exc = "CalledProcessError"
    /\ pc = "raised"
    /\ DOMAIN jobids # {}
    /\ Len(heap[scripts]) > 0

(***************************************************************************)
(* Part 3: the command wrappers submit, numjobs and failed of              *)
(* pyssub/scmd.py, and submit of pyslurm/scmd.py.  A text is the sequence  *)
(* of its pieces: single characters where the code looks at characters    *)
(* (digits, blanks, newlines), longer literals otherwise.  Python's None   *)
(* is written "None".                                                      *)
(***************************************************************************)

DigitChars == <<"0", "1", "2", "3", "4", "5", "6", "7", "8", "9">>

IsDigit(c) == \E i \in DOMAIN DigitChars : DigitChars[i] = c

DigitVal(c) == (CHOOSE i \in DOMAIN DigitChars : DigitChars[i] = c) - 1

\* str(n) of a non-negative integer
RECURSIVE ToDigits(_)
ToDigits(n) ==
    IF n < 10 THEN <<DigitChars[n + 1]>>
    ELSE Append(ToDigits(n \div 10), DigitChars[(n % 10) + 1])

\* (variant: only the first digit is read)
ParseFirstDigit(ds) == DigitVal(ds[1])

\* int(s) of a string of digits
RECURSIVE ParseInt(_)
ParseInt(ds) ==
    IF Len(ds) = 1 THEN DigitVal(ds[1])
    ELSE 10 * ParseInt(SubSeq(ds, 1, Len(ds) - 1)) + DigitVal(ds[Len(ds)])

\* the longest run of digits a text starts with: what \d+ matches
RECURSIVE DigitRun(_)
DigitRun(t) ==
    IF t # <<>> /\ IsDigit(Head(t)) THEN <<Head(t)>> \o DigitRun(Tail(t))
    ELSE <<>>

\* (variant: str.split("\n"))
RECURSIVE SplitOnNewline(_)
SplitOnNewline(t) ==
    IF \E i \in DOMAIN t : t[i] = "\n"
    THEN LET i == CHOOSE k \in DOMAIN t :
                      t[k] = "\n" /\ \A m \in 1..(k - 1) : t[m] # "\n"
         IN  <<SubSeq(t, 1, i - 1)>> \o SplitOnNewline(SubSeq(t, i + 1, Len(t)))
    ELSE <<t>>

\* str.splitlines(): every "\n" ends a line and the rest after the last one
\* is a line if it is not empty; the text is cut at a line end near its middle
\* and the lines of the two parts are put together
RECURSIVE SplitLines(_)
SplitLines(t) ==
    IF t = <<>> THEN <<>>
    ELSE IF \E i \in 1..(Len(t) - 1) : t[i] = "\n"
    THEN LET h == Max(1, Len(t) \div 2)
             i == IF \E k \in h..(Len(t) - 1) : t[k] = "\n"
                  THEN CHOOSE k \in h..(Len(t) - 1) :
                          t[k] = "\n" /\ \A m \in h..(k - 1) : t[m] # "\n"
                  ELSE CHOOSE k \in 1..(h - 1) :
                          t[k] = "\n" /\ \A m \in (k + 1)..(h - 1) : t[m] # "\n"
         IN  SplitLines(SubSeq(t, 1, i)) \o SplitLines(SubSeq(t, i + 1, Len(t)))
    ELSE IF t[Len(t)] = "\n" THEN <<SubSeq(t, 1, Len(t) - 1)>>
    ELSE <<t>>

\* the value of a call: not yet returned, returned v, raised e
Unset == [kind |-> "unset", val |-> "unset"]

Return(v) == [kind |-> "return", val |-> v]

Raise(e) == [kind |-> "raise", val |-> e]

Partitions == {"None", "long"}

Users == {"1000", "kai"}

(* ------------------------------ submit --------------------------------- *)

SubmittedPrefix == "Submitted batch job "

\* what sbatch prints after the job ID
SbatchTails == {<<>>, <<"\n">>, <<" on cluster ", "c1", "\n">>}

\* the confirmation line of sbatch for job ID n
Confirmation(n, tail) == <<SubmittedPrefix>> \o ToDigits(n) \o tail

\* outputs of an sbatch that exits with 0 without a confirmation line
SbatchOther ==
    {<<>>, <<"\n">>, <<SubmittedPrefix>>, <<SubmittedPrefix, "\n">>,
     <<" ", SubmittedPrefix, "7", "\n">>,
     <<"sbatch: error: ", "invalid partition", "\n">>}

SbatchOutputs ==
    {Confirmation(n, t) : n \in 0..MaxJobId, t \in SbatchTails}
    \cup SbatchOther

\* re.match(r"Submitted batch job (?P<jobid>\d+)", stdout).group("jobid"),
\* <<>> when there is no match
MatchJobId(out) ==
    IF out # <<>> /\ Head(out) = SubmittedPrefix THEN DigitRun(Tail(out))
    ELSE <<>>

\* (variant: the partition is appended without its option)
SbatchCommandNoFlag(partition, scriptfile) ==
    IF partition # "None" THEN <<"sbatch", partition, scriptfile>>
    ELSE <<"sbatch", scriptfile>>

\* pyssub/scmd.py lines 44-49: the argument list of sbatch
SbatchCommand(partition, scriptfile) ==
    IF partition # "None" THEN <<"sbatch", "-p", partition, scriptfile>>
    ELSE <<"sbatch", scriptfile>>

\* NamedTemporaryFile(prefix=..., suffix=".sh", delete=False).name
TempName(pkg) ==
    IF pkg = "pyssub" THEN "pyssub_XXXXXXXX.sh" ELSE "pyslurm_XXXXXXXX.sh"

SubmitCalls ==
    [fn : {"submit"}, pkg : {"pyssub", "pyslurm"},
     script : {ScriptPool[1], ScriptPool[2]}, partition : Partitions]

\* pyssub/scmd.py submit, sbatch exits with 0
ScmdSubmit ==
    /\ call.fn = "submit" /\ call.pkg = "pyssub"
    /\ result = Unset
    /\ \E out \in SbatchOutputs :
          /\ stdout' = out
          /\ result' = IF MatchJobId(out) = <<>> THEN Raise("RuntimeError")
                       ELSE Return(ParseInt(MatchJobId(out)))
    /\ command' = <<SbatchCommand(call.partition, TempName(call.pkg))>>
    /\ disk' = <<>>
    /\ UNCHANGED call
    /\ UNCHANGED gvars

\* pyslurm/scmd.py submit, sbatch exits with 0; match.group on None raises
PyslurmSubmit ==
    /\ call.fn = "submit" /\ call.pkg = "pyslurm"
    /\ result = Unset
    /\ \E out \in SbatchOutputs :
          /\ stdout' = out
          /\ result' = IF MatchJobId(out) = <<>> THEN Raise("AttributeError")
                       ELSE Return(ParseInt(MatchJobId(out)))
    /\ command' = <<SbatchCommand(call.partition, TempName(call.pkg))>>
    /\ disk' = <<>>
    /\ UNCHANGED call
    /\ UNCHANGED gvars

\* submit of either package, sbatch exits non-zero: check=True raises
\* before os.remove, the script file stays on disk
ScmdSubmitFails ==
    /\ call.fn = "submit"
    /\ result = Unset
    /\ LET name == TempName(call.pkg)
       IN  /\ command' = <<SbatchCommand(call.partition, name)>>
           /\ disk' = [f \in {name} |-> call.script]
    /\ stdout' = <<>>
    /\ result' = Raise("CalledProcessError")
    /\ UNCHANGED call
    /\ UNCHANGED gvars

(* ------------------------------ numjobs -------------------------------- *)

\* pyssub/scmd.py lines 91-94: the argument list of squeue
SqueueCommand(user, partition) ==
    IF partition # "None"
    THEN <<"squeue", "-h", "-o", "'%.i'", "-u", user, "-p", partition>>
    ELSE <<"squeue", "-h", "-o", "'%.i'", "-u", user>>

\* the listing squeue prints for n queued jobs, one row per job; the last
\* row may come without its newline
RECURSIVE Listing(_, _)
Listing(n, newline) ==
    IF n = 0 THEN <<>>
    ELSE IF n = 1 THEN (IF newline THEN <<"'id'", "\n">> ELSE <<"'id'">>)
    ELSE <<"'id'", "\n">> \o Listing(n - 1, newline)

NumjobsCalls == [fn : {"numjobs"}, user : Users, partition : Partitions]

\* pyssub/scmd.py numjobs, squeue exits with 0
ScmdNumjobs ==
    /\ call.fn = "numjobs"
    /\ result = Unset
    /\ \E n \in 0..MaxRows, newline \in BOOLEAN :
          /\ stdout' = Listing(n, newline)
          /\ result' = Return(Len(SplitLines(stdout')))
    /\ command' = <<SqueueCommand(call.user, call.partition)>>
    /\ UNCHANGED <<call, disk>>
    /\ UNCHANGED gvars

\* pyssub/scmd.py numjobs, squeue exits non-zero
ScmdNumjobsFails ==
    /\ call.fn = "numjobs"
    /\ result = Unset
    /\ stdout' = <<>>
    /\ result' = Raise("CalledProcessError")
    /\ command' = <<SqueueCommand(call.user, call.partition)>>
    /\ UNCHANGED <<call, disk>>
    /\ UNCHANGED gvars

(* ------------------------------ failed --------------------------------- *)

\* range(0, len(jobids), 1000) and slice(start, start+1000)
ChunkSize == 1000

AcctStates == {"RUNNING", "COMPLETED", "FAILED", "CANCELLE+"}

\* the job steps sacct knows: the batch step, or the step of an array task
AcctSteps == {"batch", "array"}

\* the job IDs of a mapping handed to failed: one and two digits
JobIdOf(i) == 8 + i

JobMappings ==
    {[i \in 1..k |-> [name |-> NamePool[i], jobid |-> JobIdOf(i)]] :
        k \in 0..Min(MaxJobs, Len(NamePool))}
    \cup {[i \in 1..(2 * ChunkSize + 1) |->
              [name |-> ToString(i), jobid |-> JobIdOf(i)]]}

\* the accounting records of the scheduler: job ID -> step and state
Accountings(jobs) ==
    IF Len(jobs) <= ChunkSize
    THEN UNION {[ids -> [step : AcctSteps, state : AcctStates]] :
                   ids \in SUBSET {jobs[i].jobid : i \in DOMAIN jobs}}
    ELSE {[j \in {jobs[i].jobid : i \in DOMAIN jobs} |->
              [step |-> "batch",
               state |-> IF (j - JobIdOf(0)) % ChunkSize \in near
                         THEN bad ELSE "COMPLETED"]] :
             near \in {{0, 1}, {0}, {1}}, bad \in AcctStates \ {"COMPLETED"}}

FailedCalls == [fn : {"failed"}, jobs : JobMappings]

\* "{}.batch".format(jobid)
BatchId(jobid) == ToDigits(jobid) \o <<".batch">>

\* len() of a text: the literal pieces count their characters
RECURSIVE CharLen(_)
CharLen(t) ==
    IF t = <<>> THEN 0
    ELSE CharLen(Tail(t)) +
         CASE Head(t) = ".batch" -> 6
           [] Head(t) = "COMPLETED" -> 9
           [] Head(t) = "CANCELLE+" -> 9
           [] Head(t) = "RUNNING" -> 7
           [] Head(t) = "FAILED" -> 6
           [] OTHER -> 1

\* max(len(jobid) for jobid in jobids)
RECURSIVE MaxLen(_)
MaxLen(ids) ==
    IF Len(ids) = 1 THEN CharLen(ids[1])
    ELSE LET h == Len(ids) \div 2
         IN  Max(MaxLen(SubSeq(ids, 1, h)), MaxLen(SubSeq(ids, h + 1, Len(ids))))

\* ",".join(ids)
RECURSIVE JoinComma(_)
JoinComma(ids) ==
    IF ids = <<>> THEN <<>>
    ELSE IF Len(ids) = 1 THEN ids[1]
    ELSE LET h == Len(ids) \div 2
         IN  JoinComma(SubSeq(ids, 1, h)) \o <<",">>
                 \o JoinComma(SubSeq(ids, h + 1, Len(ids)))

\* lines 137-140: the argument list of sacct for one chunk of job IDs
SacctCommand(ids, width) ==
    <<"sacct", "-j">> \o JoinComma(ids) \o <<"-n", "-o", "jobid%+">>
        \o ToDigits(width) \o <<",state%+9">>

\* a column of sacct with format %+w: the text right-aligned in w characters
RightAlign(t, w) == Blanks(Max(0, w - CharLen(t))) \o t

\* the word sacct prints in the jobid column
StepId(jobid, step) ==
    IF step = "batch" THEN BatchId(jobid)
    ELSE ToDigits(jobid) \o <<"_", "1", ".batch">>

\* the rows sacct -n -o jobid%+width,state%+9 prints for the requested jobs
\* that have an accounting record
RECURSIVE SacctRows(_, _, _)
SacctRows(jobs, acct, width) ==
    IF jobs = <<>> THEN <<>>
    ELSE IF Len(jobs) = 1
    THEN LET j == jobs[1].jobid
         IN  IF j \in DOMAIN acct
             THEN RightAlign(StepId(j, acct[j].step), width) \o <<" ">>
                  \o RightAlign(<<acct[j].state>>, 9) \o <<" ", "\n">>
             ELSE <<>>
    ELSE LET h == Len(jobs) \div 2
         IN  SacctRows(SubSeq(jobs, 1, h), acct, width)
                 \o SacctRows(SubSeq(jobs, h + 1, Len(jobs)), acct, width)

\* str.split(): the words of a line between runs of blanks
RECURSIVE Split(_)
Split(line) ==
    IF line = <<>> THEN <<>>
    ELSE IF Head(line) = " " THEN Split(Tail(line))
    ELSE LET n == IF \E i \in DOMAIN line : line[i] = " "
                  THEN (CHOOSE i \in DOMAIN line :
                           line[i] = " " /\ \A m \in 1..(i - 1) : line[m] # " ")
                       - 1
                  ELSE Len(line)
         IN  <<SubSeq(line, 1, n)>> \o Split(SubSeq(line, n + 1, Len(line)))

\* re.compile(r"(?P<jobid>\d+).batch").match(word).group("jobid"), <<>> when
\* there is no match; no word of sacct has "batch" right after a digit
MatchBatch(word) ==
    LET ds == DigitRun(word)
    IN  IF ds # <<>> /\ Len(word) > Len(ds) /\ word[Len(ds) + 1] = ".batch"
        THEN ds ELSE <<>>

\* (variant: every row is selected, whatever its state)
SelectedAll(rows) == {i \in DOMAIN rows : TRUE}

\* line 155: the rows whose state is not COMPLETED
Selected(rows) == {i \in DOMAIN rows : rows[i][2] # "COMPLETED"}

\* lines 128-169 after the sacct runs: out is the collected output
FailedResult(jobs, out) ==
    LET lines == SplitLines(out)
        rows == [i \in DOMAIN lines |->
                    LET w == Split(lines[i]) IN <<w[1], w[2][1]>>]
        sel == Selected(rows)
    IN  IF \E i \in sel : MatchBatch(rows[i][1]) = <<>>
        THEN Raise("RuntimeError")
        ELSE LET selected == {ParseInt(MatchBatch(rows[i][1])) : i \in sel}
             IN  Return(SelectSeq(jobs, LAMBDA e : e.jobid \in selected))

\* the chunks of job IDs and the sacct command of each
NumChunks(n) == (n + ChunkSize - 1) \div ChunkSize

\* (variant: the slice of a chunk takes the ID at its far end as well)
ChunkOverlap(seq, c) ==
    SubSeq(seq, (c - 1) * ChunkSize + 1, Min(c * ChunkSize + 1, Len(seq)))

Chunk(seq, c) ==
    SubSeq(seq, (c - 1) * ChunkSize + 1, Min(c * ChunkSize, Len(seq)))

\* pyssub/scmd.py failed, every sacct exits with 0
ScmdFailed ==
    /\ call.fn = "failed"
    /\ result = Unset
    /\ call.jobs # <<>>
    /\ LET jobs == call.jobs
           ids == [i \in DOMAIN jobs |-> BatchId(jobs[i].jobid)]
           width == MaxLen(ids)
           n == NumChunks(Len(jobs))
           RECURSIVE Collected(_)
           Collected(c) ==
               IF c > n THEN <<>>
               ELSE SacctRows(Chunk(jobs, c), queue, width) \o Collected(c + 1)
       IN  /\ command' = [c \in 1..n |-> SacctCommand(Chunk(ids, c), width)]
           /\ stdout' = Collected(1)
           /\ result' = FailedResult(jobs, stdout')
    /\ UNCHANGED <<call, disk>>
    /\ UNCHANGED gvars

\* pyssub/scmd.py failed, a sacct exits non-zero
ScmdFailedFails ==
    /\ call.fn = "failed"
    /\ result = Unset
    /\ call.jobs # <<>>
    /\ LET jobs == call.jobs
           ids == [i \in DOMAIN jobs |-> BatchId(jobs[i].jobid)]
           width == MaxLen(ids)
       IN  \E k \in 1..NumChunks(Len(jobs)) :
              command' = [c \in 1..k |-> SacctCommand(Chunk(ids, c), width)]
    /\ stdout' = <<>>
    /\ result' = Raise("CalledProcessError")
    /\ UNCHANGED <<call, disk>>
    /\ UNCHANGED gvars

\* pyssub/scmd.py failed of an empty mapping: max() of an empty sequence
ScmdFailedEmpty ==
    /\ call.fn = "failed"
    /\ result = Unset
    /\ call.jobs = <<>>
    /\ result' = Raise("ValueError")
    /\ UNCHANGED <<call, command, disk, stdout>>
    /\ UNCHANGED gvars

\* one call of a command wrapper; the governor is idle, the scheduler's
\* accounting is in queue
ScmdInit ==
    /\ input = <<>>
    /\ heap = [o \in {"arg", "copy"} |-> <<>>]
    /\ scripts = "arg"
    /\ jobids = <<>>
    /\ nmax = 0
    /\ pc = "idle"
    /\ exc = "none"
    /\ nnew = 0
    /\ todo = 0
    /\ hist = <<>>
    /\ slept = FALSE
    /\ other = 0
    /\ call \in SubmitCalls \cup NumjobsCalls \cup FailedCalls
    /\ queue \in IF call.fn = "failed" THEN Accountings(call.jobs) ELSE {<<>>}
    /\ stdout = <<>>
    /\ result = Unset
    /\ command = <<>>
    /\ disk = <<>>

ScmdNext ==
    \/ ScmdSubmit
    \/ PyslurmSubmit
    \/ ScmdSubmitFails
    \/ ScmdNumjobs
    \/ ScmdNumjobsFails
    \/ ScmdFailed
    \/ ScmdFailedFails
    \/ ScmdFailedEmpty

SpecScmd == ScmdInit /\ [][ScmdNext]_vars

(***************************************************************************)
(* Part 4: the script descriptors of pyssub/sbatch.py and                  *)
(* pyslurm/sbatch.py: rendering, macros, equality and the JSON files.  A   *)
(* text is a sequence of pieces as in part 3; braces are pieces of their   *)
(* own, and so is the field name of a macro reference, "macros[m]".        *)
(***************************************************************************)

MacroNames == {"m"}

\* the field name of the reference to macro n
MacroField(n) == "macros[" \o n \o "]"

\* str.format(macros=macros) of a text, from left to right: a doubled brace
\* gives one brace, {macros[n]} gives the value of macro n, any other field
\* and a missing macro raise KeyError, {} raises IndexError, a brace on its
\* own raises ValueError
RECURSIVE Format(_, _)
Format(t, macros) ==
    IF t = <<>> THEN Return(<<>>)
    ELSE IF Head(t) = "{" /\ Len(t) >= 2 /\ t[2] = "{"
    THEN LET rest == Format(SubSeq(t, 3, Len(t)), macros)
         IN  IF rest.kind = "raise" THEN rest ELSE Return(<<"{">> \o rest.val)
    ELSE IF Head(t) = "}" /\ Len(t) >= 2 /\ t[2] = "}"
    THEN LET rest == Format(SubSeq(t, 3, Len(t)), macros)
         IN  IF rest.kind = "raise" THEN rest ELSE Return(<<"}">> \o rest.val)
    ELSE IF Head(t) = "{"
    THEN IF Len(t) < 3 \/ t[2] = "}" \/ t[3] # "}"
         THEN Raise(IF Len(t) >= 2 /\ t[2] = "}" THEN "IndexError"
                    ELSE "ValueError")
         ELSE IF \E i \in DOMAIN macros : t[2] = MacroField(macros[i].name)
         THEN LET i == CHOOSE k \in DOMAIN macros :
                           t[2] = MacroField(macros[k].name)
                  rest == Format(SubSeq(t, 4, Len(t)), macros)
              IN  IF rest.kind = "raise" THEN rest
                  ELSE Return(macros[i].value \o rest.val)
         ELSE Raise("KeyError")
    ELSE IF Head(t) = "}" THEN Raise("ValueError")
    ELSE LET rest == Format(Tail(t), macros)
         IN  IF rest.kind = "raise" THEN rest ELSE Return(<<Head(t)>> \o rest.val)

\* sep.join(texts)
RECURSIVE Join(_, _)
Join(sep, texts) ==
    IF texts = <<>> THEN <<>>
    ELSE IF Len(texts) = 1 THEN texts[1]
    ELSE texts[1] \o <<sep>> \o Join(sep, Tail(texts))

\* a value of an option: an int or a str, with the text str() gives
IntValue(digits) == [type |-> "int", repr |-> digits]

StrValue(t) == [type |-> "str", repr |-> t]

\* SBatchScript.__init__ of pyssub: the descriptor of an executable
SBatchScript(executable, arguments) ==
    [executable |-> executable,
     arguments |-> arguments,
     options |-> <<>>,
     transfer_executable |-> FALSE,
     transfer_input_files |-> <<>>,
     transfer_output_files |-> <<>>]

\* "#SBATCH --{key}={value}".format(key=k, value=v), joined by newlines
OptionLines(options) ==
    Join("\n", [i \in DOMAIN options |->
                   <<"#SBATCH --", options[i].key, "=">>
                       \o options[i].value.repr])

\* "'{}'".format(f), joined by blanks
QuotedFiles(files) ==
    Join(" ", [i \in DOMAIN files |-> <<"'">> \o files[i] \o <<"'">>])

\* SBatchScript._description of pyssub
Description(script) ==
    [options |-> OptionLines(script.options),
     executable |-> script.executable,
     arguments |-> script.arguments,
     transfer_executable |->
         IF script.transfer_executable THEN <<"true">> ELSE <<"false">>,
     transfer_input_files |-> QuotedFiles(script.transfer_input_files),
     transfer_output_files |-> QuotedFiles(script.transfer_output_files)]

\* _skeleton.format(descr=description): the fixed text of the skeleton
\* around the six fields, in the order they appear in it
Skeleton(descr) ==
    <<"#!/usr/bin/env bash\n\n">> \o descr.options
        \o <<"\n...function cleanup...\nexecutable=">> \o descr.executable
        \o <<"\ntransfer_executable=">> \o descr.transfer_executable
        \o <<"\n...\ninputfiles=(">> \o descr.transfer_input_files
        \o <<")\n...\n$executable ">> \o descr.arguments
        \o <<"\n...\noutputfiles=(">> \o descr.transfer_output_files
        \o <<")\n...\n">>

\* SBatchScript.__str__
Str(script) == Return(Skeleton(Description(script)))

\* the keys of the description, in the order of the dict
DescriptionKeys ==
    <<"options", "executable", "arguments", "transfer_executable",
      "transfer_input_files", "transfer_output_files">>

\* the error of the first value whose formatting raises, if any
FirstError(results) ==
    IF \E i \in DOMAIN results : results[i].kind = "raise"
    THEN results[CHOOSE i \in DOMAIN results :
                    /\ results[i].kind = "raise"
                    /\ \A j \in 1..(i - 1) : results[j].kind # "raise"]
    ELSE Return(<<>>)

\* (variant: a value that refers to an unknown macro is put into the
\* skeleton as it is)
StrMacroLenient(script, macros) ==
    LET descr == Description(script)
        formatted == [i \in DOMAIN DescriptionKeys |->
                         LET f == Format(descr[DescriptionKeys[i]], macros)
                         IN  IF f.kind = "raise" /\ f.val = "KeyError"
                             THEN Return(descr[DescriptionKeys[i]])
                             ELSE f]
    IN  IF FirstError(formatted).kind = "raise" THEN FirstError(formatted)
        ELSE Return(Skeleton(
                 [k \in {DescriptionKeys[i] : i \in DOMAIN DescriptionKeys} |->
                     formatted[CHOOSE i \in DOMAIN DescriptionKeys :
                                   DescriptionKeys[i] = k].val]))

\* (variant: only the arguments are formatted with the macros)
StrMacroArguments(script, macros) ==
    LET descr == Description(script)
        formatted == Format(descr.arguments, macros)
    IN  IF formatted.kind = "raise" THEN formatted
        ELSE Return(Skeleton([descr EXCEPT !.arguments = formatted.val]))

\* SBatchScriptMacro.__str__: every value of the description is formatted
\* with the macros, then put into the skeleton
StrMacro(script, macros) ==
    LET descr == Description(script)
        formatted == [i \in DOMAIN DescriptionKeys |->
                         Format(descr[DescriptionKeys[i]], macros)]
    IN  IF FirstError(formatted).kind = "raise" THEN FirstError(formatted)
        ELSE Return(Skeleton(
                 [k \in {DescriptionKeys[i] : i \in DOMAIN DescriptionKeys} |->
                     formatted[CHOOSE i \in DOMAIN DescriptionKeys :
                                   DescriptionKeys[i] = k].val]))

\* the two classes of descriptor objects; macros is a dict in insertion
\* order, empty for a plain script
Plain(script) == [class |-> "SBatchScript", script |-> script, macros |-> <<>>]

Macro(script, macros) ==
    [class |-> "SBatchScriptMacro", script |-> script, macros |-> macros]

\* str(obj) of a descriptor object
Rendered(obj) ==
    IF obj.class = "SBatchScript" THEN Str(obj.script)
    ELSE StrMacro(obj.script, obj.macros)

\* (variant: the fields of the two descriptors are compared)
ScriptEqFields(a, b) == Return(a = b)

\* __eq__ of both classes: str(self) == str(other); an error of either
\* rendering is the error of the comparison
ScriptEq(a, b) ==
    IF Rendered(a).kind = "raise" THEN Rendered(a)
    ELSE IF Rendered(b).kind = "raise" THEN Rendered(b)
    ELSE Return(Rendered(a).val = Rendered(b).val)

\* pyslurm: self.options["ntasks"] = 1, in place or as a new last item
SetNtasks(options) ==
    IF \E i \in DOMAIN options : options[i].key = "ntasks"
    THEN [i \in DOMAIN options |->
             IF options[i].key = "ntasks"
             THEN [key |-> "ntasks", value |-> IntValue(<<"1">>)]
             ELSE options[i]]
    ELSE Append(options, [key |-> "ntasks", value |-> IntValue(<<"1">>)])

\* (variant: the option lines are made before ntasks is set)
PyslurmRenderedLate(obj) ==
    [text |-> Rendered(obj),
     obj |-> [obj EXCEPT !.script.options = SetNtasks(@)]]

\* str(obj) of pyslurm/sbatch.py: _description sets ntasks on the script,
\* then renders as pyssub does; gives the text and the object afterwards
PyslurmRendered(obj) ==
    LET after == [obj EXCEPT !.script.options = SetNtasks(@)]
    IN  [text |-> Rendered(after), obj |-> after]

(* ----------------------------- JSON files ------------------------------ *)

\* SBatchScriptEncoder._encode: the JSON object of a script; empty
\* arguments, options and file lists are left out, option values are str()
Encode(script) ==
    LET present ==
            {"executable", "transfer_executable"}
            \cup (IF Len(script.arguments) > 0 THEN {"arguments"} ELSE {})
            \cup (IF Len(script.options) > 0 THEN {"options"} ELSE {})
            \cup (IF Len(script.transfer_input_files) > 0
                  THEN {"transfer_input_files"} ELSE {})
            \cup (IF Len(script.transfer_output_files) > 0
                  THEN {"transfer_output_files"} ELSE {})
    IN  [k \in present |->
            IF k = "options"
            THEN [i \in DOMAIN script.options |->
                     [key |-> script.options[i].key,
                      value |-> StrValue(script.options[i].value.repr)]]
            ELSE script[k]]

\* load: the script of a JSON object, with the defaults for missing keys
Load(json) ==
    LET Get(k, default) == IF k \in DOMAIN json THEN json[k] ELSE default
        script == SBatchScript(json.executable, Get("arguments", <<>>))
    IN  [script EXCEPT
            !.transfer_executable = Get("transfer_executable", FALSE),
            !.options = Get("options", <<>>),
            !.transfer_input_files = Get("transfer_input_files", <<>>),
            !.transfer_output_files = Get("transfer_output_files", <<>>)]

\* SBatchScriptEncoder.default: only a plain script is encoded, for any
\* other object json raises TypeError
Default(obj) ==
    IF obj.class = "SBatchScript" THEN Return(Encode(obj.script))
    ELSE Raise("TypeError")

(* --------------------------- the descriptors --------------------------- *)

\* {macros[m]}
Ref == <<"{", MacroField("m"), "}">>

ArgumentTexts ==
    {<<"x", "0">>, <<"x">> \o Ref, <<"{", "{", "x", "}", "}">>,
     <<"$", "{", "x", "}">>}

OptionDicts ==
    {<<[key |-> "ntasks", value |-> IntValue(<<"1">>)]>>,
     <<[key |-> "ntasks", value |-> StrValue(<<"1">>)]>>,
     <<[key |-> "job-name", value |-> StrValue(<<"t">> \o Ref)]>>,
     <<[key |-> "job-name", value |-> StrValue(<<"t", "0">>)]>>}

InputFiles == {<<<<"i", "0">>>>, <<<<"i">> \o Ref>>, <<<<"i", "0">>, <<"j">>>>}

OutputFiles == {<<<<"o", "0">>>>, <<<<"o">> \o Ref>>}

\* the number of fields of a script that differ from __init__'s
Changed(script) ==
    (IF script.arguments # <<>> THEN 1 ELSE 0)
    + (IF script.options # <<>> THEN 1 ELSE 0)
    + (IF script.transfer_executable THEN 1 ELSE 0)
    + (IF script.transfer_input_files # <<>> THEN 1 ELSE 0)
    + (IF script.transfer_output_files # <<>> THEN 1 ELSE 0)

\* the scripts with at most n fields set after construction
Scripts(n) ==
    {s \in [executable : {<<"e">>},
            arguments : ArgumentTexts \cup {<<>>},
            options : OptionDicts \cup {<<>>},
            transfer_executable : BOOLEAN,
            transfer_input_files : InputFiles \cup {<<>>},
            transfer_output_files : OutputFiles \cup {<<>>}] :
        Changed(s) <= n}

\* the macros of a descriptor: none, a number, a text with braces
MacroDicts ==
    {<<>>, <<[name |-> "m", value |-> <<"0">>]>>,
     <<[name |-> "m", value |-> <<"{", "y", "}">>]>>}

MacroObjects(n) == {Macro(s, m) : s \in Scripts(n), m \in MacroDicts}

Objects(n) == {Plain(s) : s \in Scripts(n)} \cup MacroObjects(n)

\* the plain counterpart of a text with macros: every {macros[n]} of a
\* defined macro n replaced by its value
RECURSIVE Substitute(_, _)
Substitute(t, macros) ==
    IF t = <<>> THEN <<>>
    ELSE IF /\ Len(t) >= 3 /\ t[1] = "{" /\ t[3] = "}"
            /\ \E i \in DOMAIN macros : t[2] = MacroField(macros[i].name)
    THEN LET i == CHOOSE k \in DOMAIN macros :
                      t[2] = MacroField(macros[k].name)
         IN  macros[i].value \o Substitute(SubSeq(t, 4, Len(t)), macros)
    ELSE <<Head(t)>> \o Substitute(Tail(t), macros)

\* the plain script with the values of the macros written out in the
\* arguments, the option values and the file paths
SubstituteScript(script, macros) ==
    [script EXCEPT
        !.arguments = Substitute(@, macros),
        !.options = [i \in DOMAIN @ |->
                        [key |-> @[i].key,
                         value |-> [type |-> @[i].value.type,
                                    repr |-> Substitute(@[i].value.repr,
                                                        macros)]]],
        !.transfer_input_files =
            [i \in DOMAIN @ |-> Substitute(@[i], macros)],
        !.transfer_output_files =
            [i \in DOMAIN @ |-> Substitute(@[i], macros)]]

\* the texts a script is made of
FieldTexts(script) ==
    {script.executable, script.arguments}
    \cup {script.options[i].value.repr : i \in DOMAIN script.options}
    \cup {script.transfer_input_files[i] :
             i \in DOMAIN script.transfer_input_files}
    \cup {script.transfer_output_files[i] :
             i \in DOMAIN script.transfer_output_files}

(* ------------------------- calls on descriptors ------------------------ *)

DefaultScript == Plain(SBatchScript(<<"e">>, <<>>))

\* str() twice, a == b, save and load, or a script with macros against
\* its plain counterpart; the governor and the scheduler are idle
SBatchInit ==
    /\ input = <<>>
    /\ scripts = "arg"
    /\ jobids = <<>>
    /\ nmax = 0
    /\ pc = "idle"
    /\ exc = "none"
    /\ nnew = 0
    /\ todo = 0
    /\ hist = <<>>
    /\ slept = FALSE
    /\ queue = <<>>
    /\ other = 0
    /\ \/ /\ call \in [fn : {"str"}, pkg : {"pyssub", "pyslurm"},
                       route : {"direct"}]
          /\ heap \in [a : Objects(MaxFields), b : {DefaultScript}]
       \/ /\ call \in [fn : {"eq"}, pkg : {"pyssub"}, route : {"direct"}]
          /\ heap \in [a : Objects(MaxFields), b : Objects(1)]
       \/ /\ call \in [fn : {"json"}, pkg : {"pyssub"}, route : {"direct"}]
          /\ heap \in [a : Objects(MaxFields), b : {DefaultScript}]
       \/ /\ call \in [fn : {"macro"}, pkg : {"pyssub"},
                       route : {"direct", "collection"}]
          /\ \E obj \in MacroObjects(MaxFields) :
                heap = [a |-> obj,
                        b |-> Plain(SubstituteScript(obj.script, obj.macros))]
    /\ stdout = <<>>
    /\ result = Unset
    /\ command = <<>>
    /\ disk = <<>>

\* str(a), or str(b) once a is rendered in a comparison: the text is kept
\* in stdout; pyslurm's rendering changes the object
SBatchStr ==
    /\ call.fn \in {"str", "eq", "macro"}
    /\ call.route = "collection" => DOMAIN disk # {}
    /\ result = Unset
    /\ Len(stdout) < 2
    /\ LET target == IF call.fn = "str" \/ Len(stdout) = 0 THEN "a" ELSE "b"
           r == IF call.pkg = "pyslurm" THEN PyslurmRendered(heap[target])
                ELSE [text |-> Rendered(heap[target]), obj |-> heap[target]]
       IN  /\ heap' = [heap EXCEPT ![target] = r.obj]
           /\ IF r.text.kind = "raise"
              THEN result' = r.text /\ stdout' = stdout
              ELSE result' = result /\ stdout' = Append(stdout, r.text.val)
    /\ UNCHANGED <<input, scripts, jobids, nmax, pc, exc, nnew, todo, hist,
                   slept, queue, other>>
    /\ UNCHANGED avars

\* a == b
SBatchEq ==
    /\ call.fn \in {"eq", "macro"}
    /\ result = Unset
    /\ Len(stdout) = 2
    /\ result' = ScriptEq(heap.a, heap.b)
    /\ UNCHANGED stdout
    /\ UNCHANGED gvars
    /\ UNCHANGED avars

\* json.dump(a, stream, cls=SBatchScriptEncoder): the file is opened
\* before the object is encoded
SBatchSave ==
    /\ call.fn = "json"
    /\ result = Unset
    /\ DOMAIN disk = {}
    /\ LET json == Default(heap.a)
       IN  IF json.kind = "raise"
           THEN /\ result' = json
                /\ disk' = [f \in {"script.json"} |-> <<>>]
           ELSE /\ result' = result
                /\ disk' = [f \in {"script.json"} |-> json.val]
    /\ UNCHANGED <<call, command, stdout>>
    /\ UNCHANGED gvars

\* b = load("script.json"), then a == b
SBatchLoad ==
    /\ call.fn = "json"
    /\ result = Unset
    /\ DOMAIN disk # {}
    /\ heap' = [heap EXCEPT !.b = Plain(Load(disk["script.json"]))]
    /\ result' = ScriptEq(heap.a, heap'.b)
    /\ UNCHANGED <<input, scripts, jobids, nmax, pc, exc, nnew, todo, hist,
                   slept, queue, other>>
    /\ UNCHANGED stdout
    /\ UNCHANGED avars

\* save(a.script, "script.json"), a collection file naming it with a's
\* macros, and a = collection("collection.json")["job"]
SBatchCollection ==
    /\ call.fn = "macro" /\ call.route = "collection"
    /\ result = Unset
    /\ DOMAIN disk = {}
    /\ LET json == Encode(heap.a.script)
           descriptionlist == <<[name |-> "job", script |-> "script.json",
                                 macros |-> heap.a.macros]>>
       IN  /\ disk' = [f \in {"script.json", "collection.json"} |->
                          IF f = "script.json" THEN json ELSE descriptionlist]
           /\ heap' = [heap EXCEPT
                          !.a = Macro(Load(json), descriptionlist[1].macros)]
    /\ UNCHANGED <<input, scripts, jobids, nmax, pc, exc, nnew, todo, hist,
                   slept, queue, other>>
    /\ UNCHANGED <<call, command, stdout, result>>

SBatchNext ==
    \/ SBatchStr
    \/ SBatchEq
    \/ SBatchSave
    \/ SBatchLoad
    \/ SBatchCollection

SpecSBatch == SBatchInit /\ [][SBatchNext]_vars

(* --------------------- properties of the wrappers ---------------------- *)

\* the call has come back, with a value or an error
Done == result.kind # "unset"

\* sbatch exited with 0 and printed something that does not start with the
\* confirmation of a job ID
Unconfirmed ==
    /\ ~(result.kind = "raise" /\ result.val = "CalledProcessError")
    /\ \A n \in 0..MaxJobId, t \in SbatchTails : stdout # Confirmation(n, t)

SubmitReturnsJobId ==
    (call.fn = "submit" /\ Done) =>
        \A n \in 0..MaxJobId, t \in SbatchTails :
            stdout = Confirmation(n, t) =>
                result.kind = "return" /\ result.val = n

SubmitReturnsJobIdWitness ==
    /\ call.fn = "submit"
    /\ result.kind = "return"
    /\ result.val = 12
    /\ stdout = Confirmation(12, <<" on cluster ", "c1", "\n">>)

\* C13: when sbatch exits with 0 and its output does not start with the
\* confirmation of a job ID, submit raises RuntimeError.
SubmitParseError ==
    (call.fn = "submit" /\ Done /\ Unconfirmed) =>
        result.kind = "raise" /\ result.val = "RuntimeError"

\* C15: numjobs returns the number of rows squeue printed.
NumjobsCountsRows ==
    (call.fn = "numjobs" /\ result.kind = "return") =>
        \A n \in 0..MaxRows, newline \in BOOLEAN :
            stdout = Listing(n, newline) => result.val = n

NumjobsCountsRowsWitness ==
    /\ call.fn = "numjobs"
    /\ result.kind = "return"
    /\ result.val = 3
    /\ stdout = Listing(3, TRUE)

\* C16: with a partition, the arguments of squeue end with -u <user>
\* -p <partition> and sbatch is run as sbatch -p <partition> <script file>;
\* without one, no -p is passed.
PartitionOption ==
    /\ (call.fn = "numjobs" /\ Done) =>
          LET c == command[1]
          IN  IF call.partition # "None"
              THEN /\ Len(c) >= 4
                   /\ SubSeq(c, Len(c) - 3, Len(c))
                        = <<"-u", call.user, "-p", call.partition>>
              ELSE \A i \in DOMAIN c : c[i] # "-p"
    /\ (call.fn = "submit" /\ Done) =>
          LET c == command[1]
          IN  IF call.partition # "None"
              THEN c = <<"sbatch", "-p", call.partition, TempName(call.pkg)>>
              ELSE \A i \in DOMAIN c : c[i] # "-p"

PartitionOptionWitness ==
    /\ call.fn = "submit"
    /\ call.partition = "long"
    /\ result.kind = "return"
    /\ Len(command) = 1
    /\ Len(command[1]) = 4

(* -------------------- properties of the descriptors -------------------- *)

\* every macro a text of the script refers to has a value in macros
RefsDefined(script, macros) ==
    \A t \in FieldTexts(script) : \A i \in DOMAIN t : \A n \in MacroNames :
        t[i] = MacroField(n) => \E k \in DOMAIN macros : macros[k].name = n

\* every brace of the text is a brace of a reference {macros[n]}
RECURSIVE OnlyRefBraces(_)
OnlyRefBraces(t) ==
    IF t = <<>> THEN TRUE
    ELSE IF /\ Len(t) >= 3 /\ t[1] = "{" /\ t[3] = "}"
            /\ \E n \in MacroNames : t[2] = MacroField(n)
    THEN OnlyRefBraces(SubSeq(t, 4, Len(t)))
    ELSE Head(t) \notin {"{", "}"} /\ OnlyRefBraces(Tail(t))

\* C17: two renderings of the same descriptor in a row give the same text.
RenderIdempotent ==
    (call.fn = "str" /\ Len(stdout) = 2) => stdout[1] = stdout[2]

RenderIdempotentWitness ==
    /\ call.fn = "str"
    /\ call.pkg = "pyslurm"
    /\ Len(stdout) = 2
    /\ heap.a.class = "SBatchScriptMacro"
    /\ Len(heap.a.macros) = 1
    /\ Len(heap.a.script.options) = 2

\* C18: a == b is true exactly when the rendered texts of a and b are the
\* same text.
EqualIffSameText ==
    (call.fn = "eq" /\ result.kind = "return") =>
        result.val = (stdout[1] = stdout[2])

EqualIffSameTextWitness ==
    /\ call.fn = "eq"
    /\ result.kind = "return"
    /\ result.val
    /\ heap.a.class # heap.b.class
    /\ heap.a.script # heap.b.script

\* C19: a descriptor that is encoded to JSON and loaded again is equal to
\* the original, with or without macros.
RoundTrip ==
    (call.fn = "json" /\ Done) => (result.kind = "return" /\ result.val)

\* C20: a script with macros, all of them defined, is equal to the plain
\* script with the values written out.
MacroEqualsSubstituted ==
    (call.fn = "macro" /\ Done /\ RefsDefined(heap.a.script, heap.a.macros))
        => (result.kind = "return" /\ result.val)

\* C20, amended: a script with macros, all of them defined, whose
\* executable has no braces and whose other texts have no braces but those
\* of the references, renders to the same text as the plain script with the
\* values written out, and is equal to it.
MacroEqualsSubstitutedPlainBraces ==
    (/\ call.fn = "macro"
     /\ Done
     /\ RefsDefined(heap.a.script, heap.a.macros)
     /\ \A i \in DOMAIN heap.a.script.executable :
            heap.a.script.executable[i] \notin {"{", "}"}
     /\ \A t \in FieldTexts(heap.a.script) : OnlyRefBraces(t))
        => /\ result.kind = "return" /\ result.val
           /\ stdout[1] = stdout[2]

MacroEqualsSubstitutedWitness ==
    /\ call.fn = "macro"
    /\ call.route = "collection"
    /\ result.kind = "return"
    /\ result.val
    /\ heap.a.script.arguments = <<"x">> \o Ref
    /\ heap.a.script.transfer_input_files = <<<<"i">> \o Ref>>
    /\ heap.a.macros = <<[name |-> "m", value |-> <<"{", "y", "}">>]>>

\* C21: rendering a script with macros that refers to a macro without a
\* value raises an error and gives no text.
MissingMacroRaises ==
    (/\ call.fn = "str"
     /\ heap.a.class = "SBatchScriptMacro"
     /\ ~RefsDefined(heap.a.script, heap.a.macros))
        => /\ stdout = <<>>
           /\ Done => result.kind = "raise"

MissingMacroRaisesWitness ==
    /\ call.fn = "str"
    /\ heap.a.class = "SBatchScriptMacro"
    /\ heap.a.macros = <<>>
    /\ heap.a.script.arguments = <<"x">> \o Ref
    /\ result.kind = "raise"
    /\ result.val = "KeyError"

(***************************************************************************)
(* Part 5: the job history of pyslurm/shist.py.  The file is a text of     *)
(* single characters.                                                      *)
(***************************************************************************)

\* job names: empty, short, and longer than the header "# job name"
HistNames ==
    {<<>>, <<"a">>, <<"j", "2">>,
     <<"t", "e", "s", "t", "_", "j", "o", "b", "_", "0", "1">>}

\* the mappings of job names to job IDs; the IDs have one, three and seven
\* digits, the header "job ID" has six characters
HistMappings ==
    UNION {{m \in [1..k -> [name : HistNames, jobid : {7, 123, 1234567}]] :
               \A i, j \in 1..k : i # j => m[i].name # m[j].name} :
           k \in 0..MaxHist}

\* "{:w}".format(text): a str is left-aligned in w characters
LeftAlign(t, w) == t \o Blanks(Max(0, w - Len(t)))

\* save: the header and one row for each job, in columns as wide as the
\* header or the longest entry; an int is right-aligned in its column
SaveHist(jobs) ==
    LET header == <<"#", " ", "j", "o", "b", " ", "n", "a", "m", "e">>
        jobid == <<"j", "o", "b", " ", "I", "D">>
        RECURSIVE Widest(_, _, _)
        Widest(w, F(_), i) ==
            IF i > Len(jobs) THEN w ELSE Widest(Max(w, F(i)), F, i + 1)
        wname == Widest(Len(header), LAMBDA i : Len(jobs[i].name), 1)
        wid == Widest(Len(jobid), LAMBDA i : Len(ToDigits(jobs[i].jobid)), 1)
        RECURSIVE Rows(_)
        Rows(i) ==
            IF i > Len(jobs) THEN <<>>
            ELSE LeftAlign(jobs[i].name, wname) \o <<" ">>
                     \o RightAlign(ToDigits(jobs[i].jobid), wid) \o <<"\n">>
                     \o Rows(i + 1)
    IN  LeftAlign(header, wname) \o <<" ">> \o LeftAlign(jobid, wid)
            \o <<"\n">> \o Rows(1)

\* (variant: every row of the file is taken)
AllRows(text) == SplitLines(text)

\* the rows of the file that do not start with "#"
DataRows(text) ==
    SelectSeq(SplitLines(text), LAMBDA row : row = <<>> \/ Head(row) # "#")

\* load: the first word of each data row is the name, the second the ID;
\* a row without a second word raises IndexError, a second word that is
\* not a number raises ValueError
LoadHist(text) ==
    LET rows == DataRows(text)
        words == [i \in DOMAIN rows |-> Split(rows[i])]
        Bad(i) == Len(words[i]) < 2 \/ \E k \in DOMAIN words[i][2] :
                                          ~IsDigit(words[i][2][k])
    IN  IF \E i \in DOMAIN rows : Len(words[i]) = 0 THEN Raise("IndexError")
        ELSE IF \E i \in DOMAIN rows : Bad(i)
        THEN LET i == CHOOSE k \in DOMAIN rows :
                          Bad(k) /\ \A m \in 1..(k - 1) : ~Bad(m)
             IN  Raise(IF Len(words[i]) < 2 THEN "IndexError"
                       ELSE "ValueError")
        ELSE Return([i \in DOMAIN rows |->
                        [name |-> words[i][1],
                         jobid |-> ParseInt(words[i][2])]])

\* one history is saved, then loaded; everything else is idle
ShistInit ==
    /\ input = <<>>
    /\ heap = [o \in {"arg", "copy"} |-> <<>>]
    /\ scripts = "arg"
    /\ jobids = <<>>
    /\ nmax = 0
    /\ pc = "idle"
    /\ exc = "none"
    /\ nnew = 0
    /\ todo = 0
    /\ hist = <<>>
    /\ slept = FALSE
    /\ queue = <<>>
    /\ other = 0
    /\ call \in [fn : {"shist"}, jobs : HistMappings]
    /\ stdout = <<>>
    /\ result = Unset
    /\ command = <<>>
    /\ disk = <<>>

\* save("jobs.txt", jobs)
ShistSave ==
    /\ DOMAIN disk = {}
    /\ disk' = [f \in {"jobs.txt"} |-> SaveHist(call.jobs)]
    /\ UNCHANGED <<call, command, stdout, result>>
    /\ UNCHANGED gvars

\* load("jobs.txt")
ShistLoad ==
    /\ DOMAIN disk # {}
    /\ result = Unset
    /\ result' = LoadHist(disk["jobs.txt"])
    /\ UNCHANGED <<call, command, disk, stdout>>
    /\ UNCHANGED gvars

ShistNext ==
    \/ ShistSave
    \/ ShistLoad

SpecShist == ShistInit /\ [][ShistNext]_vars

StatusNonZero(status) ==
    /\ \E i \in DOMAIN status : status[i] # "0"
    /\ LET first == CHOOSE i \in DOMAIN status :
                        status[i] # "0" /\ \A k \in 1..(i - 1) : status[k] = "0"
       IN  Len(status) - first + 1 <= 19

\* exit $status: the exit code is the decimal number modulo 256
RECURSIVE ExitCode(_)
ExitCode(status) ==
    IF status = <<>> THEN 0
    ELSE (10 * ExitCode(SubSeq(status, 1, Len(status) - 1))
          + DigitVal(status[Len(status)])) % 256

\* a script is started in a directory without a working directory
BashInit ==
    /\ input = <<>>
    /\ heap = [o \in {"arg", "copy"} |-> <<>>]
    /\ scripts = "arg"
    /\ jobids = <<>>
    /\ nmax = 0
    /\ pc = "mkdir"
    /\ exc = "none"
    /\ nnew = 0
    /\ todo = 0
    /\ hist = <<>>
    /\ slept = FALSE
    /\ queue = <<>>
    /\ other = 0
    /\ call \in [fn : {"bash"}, transfer_executable : BOOLEAN,
                 inputs : 0..MaxInputs, outputs : 0..MaxOutputs]
    /\ stdout = <<>>
    /\ result = Unset
    /\ command = <<>>
    /\ disk = <<>>

\* lines 313-319: mkdir -v $workdir; exit $status if it fails
BashMkdir ==
    /\ pc = "mkdir"
    /\ \E code \in {0, 1} :
          /\ hist' = Append(hist, [cmd |-> "mkdir", code |-> code])
          /\ IF code # 0
             THEN pc' = "exit" /\ result' = Return(code) /\ disk' = disk
             ELSE /\ pc' = "transfer_executable"
                  /\ result' = result
                  /\ disk' = [d \in {"slurm"} |-> "directory"]
    /\ UNCHANGED <<heap, input, scripts, jobids, nmax, exc, nnew, todo, slept,
                   queue, other, stdout, call, command>>

\* lines 327-350: cd $workdir; cp -v $executable . if asked for, cleanup
\* and exit $status if it fails; then status=0 for the input files
BashTransferExecutable ==
    /\ pc = "transfer_executable"
    /\ \E code \in {0, 1} :
          /\ call.transfer_executable \/ code = 0
          /\ IF code # 0
             THEN /\ hist' = hist \o <<[cmd |-> "cp executable", code |-> code],
                                       [cmd |-> "rm", code |-> 0]>>
                  /\ disk' = <<>>
                  /\ pc' = "exit"
                  /\ result' = Return(code)
                  /\ UNCHANGED <<stdout, todo>>
             ELSE /\ hist' = IF call.transfer_executable
                             THEN Append(hist, [cmd |-> "cp executable",
                                                code |-> 0])
                             ELSE hist
                  /\ pc' = "inputs"
                  /\ stdout' = <<"0">>
                  /\ todo' = call.inputs
                  /\ UNCHANGED <<disk, result>>
    /\ UNCHANGED <<heap, input, scripts, jobids, nmax, exc, nnew, slept,
                   queue, other, call, command>>

\* lines 351-355 and 377-381: cp or mv of the next file; status+=$? appends
\* the exit code to the string
BashTransfer ==
    /\ pc \in {"inputs", "outputs"}
    /\ todo > 0
    /\ \E code \in {0, 1} :
          /\ hist' = Append(hist, [cmd |-> IF pc = "inputs" THEN "cp input"
                                           ELSE "mv output",
                                   code |-> code])
          /\ stdout' = stdout \o ToDigits(code)
    /\ todo' = todo - 1
    /\ UNCHANGED <<heap, input, scripts, jobids, nmax, pc, exc, nnew, slept,
                   queue, other, result, call, command, disk>>

\* (variant: a failed transfer exits without cleanup)
BashTransferDoneNoCleanup ==
    /\ pc \in {"inputs", "outputs"}
    /\ todo = 0
    /\ IF StatusNonZero(stdout)
       THEN /\ pc' = "exit"
            /\ result' = Return(ExitCode(stdout))
            /\ UNCHANGED <<hist, disk>>
       ELSE IF pc = "inputs"
       THEN pc' = "execute" /\ UNCHANGED <<hist, disk, result>>
       ELSE /\ hist' = Append(hist, [cmd |-> "rm", code |-> 0])
            /\ disk' = <<>>
            /\ pc' = "exit"
            /\ result' = Return(0)
    /\ UNCHANGED <<heap, input, scripts, jobids, nmax, exc, nnew, todo, slept,
                   queue, other, stdout, call, command>>

\* lines 357-361 and 383-389: after the loop, cleanup and exit $status if
\* status is not 0; else go on, after the output files with cleanup as
\* the last command
BashTransferDone ==
    /\ pc \in {"inputs", "outputs"}
    /\ todo = 0
    /\ IF StatusNonZero(stdout)
       THEN /\ hist' = Append(hist, [cmd |-> "rm", code |-> 0])
            /\ disk' = <<>>
            /\ pc' = "exit"
            /\ result' = Return(ExitCode(stdout))
       ELSE IF pc = "inputs"
       THEN pc' = "execute" /\ UNCHANGED <<hist, disk, result>>
       ELSE /\ hist' = Append(hist, [cmd |-> "rm", code |-> 0])
            /\ disk' = <<>>
            /\ pc' = "exit"
            /\ result' = Return(0)
    /\ UNCHANGED <<heap, input, scripts, jobids, nmax, exc, nnew, todo, slept,
                   queue, other, stdout, call, command>>

\* lines 364-376: $executable arguments; cleanup and exit $status if it
\* fails; then status=0 for the output files
BashExecute ==
    /\ pc = "execute"
    /\ \E code \in {0, 1, 255} :
          IF code # 0
          THEN /\ hist' = hist \o <<[cmd |-> "executable", code |-> code],
                                    [cmd |-> "rm", code |-> 0]>>
               /\ disk' = <<>>
               /\ pc' = "exit"
               /\ result' = Return(code)
               /\ UNCHANGED <<stdout, todo>>
          ELSE /\ hist' = Append(hist, [cmd |-> "executable", code |-> 0])
               /\ pc' = "outputs"
               /\ stdout' = <<"0">>
               /\ todo' = call.outputs
               /\ UNCHANGED <<disk, result>>
    /\ UNCHANGED <<heap, input, scripts, jobids, nmax, exc, nnew, slept,
                   queue, other, call, command>>

BashNext ==
    \/ BashMkdir
    \/ BashTransferExecutable
    \/ BashTransfer
    \/ BashTransferDone
    \/ BashExecute

SpecBash == BashInit /\ [][BashNext]_vars

\* the run has created its working directory
Created == \E i \in DOMAIN hist : hist[i] = [cmd |-> "mkdir", code |-> 0]

\* C23: when the script exits after it created its working directory, the
\* working directory is removed, whichever command failed.
CleanupDone ==
    (pc = "exit" /\ Created) => DOMAIN disk = {}

CleanupDoneWitness ==
    /\ pc = "exit"
    /\ Created
    /\ hist[Len(hist) - 1] = [cmd |-> "mv output", code |-> 1]
    /\ hist[Len(hist)].cmd = "rm"
    /\ result.val # 0
    /\ DOMAIN disk = {}

\* C24: the script exits with 0 only if no command failed, and after a
\* failed command it runs no command of a later phase, only its cleanup.
ExitCodeTellsFailure ==
    pc = "exit" =>
        /\ result.val = 0 => \A i \in DOMAIN hist : hist[i].code = 0
        /\ \A i, j \in DOMAIN hist :
              (i < j /\ hist[i].code # 0)
                  => hist[j].cmd \in {hist[i].cmd, "rm"}

(* ------------------------- failed: the chunks -------------------------- *)

\* C25: when failed returns, sacct was run once for every ChunkSize job IDs
\* of the mapping: no run was given more than ChunkSize IDs, every run but
\* the last was given exactly ChunkSize, the IDs of the runs put one after
\* the other are the IDs of the mapping in its order, each one once, and the
\* value returned is the one a single run over all the IDs would have given
ChunkedQueries ==
    (call.fn = "failed" /\ result.kind = "return") =>
        LET jobs == call.jobs
            ids == [i \in DOMAIN jobs |-> BatchId(jobs[i].jobid)]
            n == Len(command)
            arg == [c \in 1..n |->
                       SubSeq(command[c], 3,
                              (CHOOSE k \in DOMAIN command[c] :
                                  command[c][k] = "-n") - 1)]
            count(c) == Len(SelectSeq(arg[c], LAMBDA p : p = ".batch"))
            RECURSIVE Passed(_)
            Passed(c) == IF c = n THEN arg[c]
                         ELSE arg[c] \o <<",">> \o Passed(c + 1)
        IN  /\ n * ChunkSize >= Len(jobs)
            /\ (n - 1) * ChunkSize < Len(jobs)
            /\ \A c \in 1..n : count(c) \in 1..ChunkSize
            /\ \A c \in 1..(n - 1) : count(c) = ChunkSize
            /\ Passed(1) = JoinComma(ids)
            /\ result = FailedResult(jobs, SacctRows(jobs, queue, MaxLen(ids)))

\* failed returned for a mapping of more than two full chunks, with failed
\* jobs at the ends of the chunks
ChunkedQueriesWitness ==
    /\ call.fn = "failed"
    /\ Len(call.jobs) > 2 * ChunkSize
    /\ Len(command) = 3
    /\ result.kind = "return"
    /\ \E i, k \in DOMAIN result.val :
          /\ result.val[i] = call.jobs[ChunkSize]
          /\ result.val[k] = call.jobs[ChunkSize + 1]

(* --------------------- failed: rows without a match -------------------- *)

\* C26: when failed has run its sacct commands and one of the rows they
\* printed has a first word that is not digits followed by .batch, failed
\* raises RuntimeError, whatever the state in that row.
UnmatchedRowRaises ==
    (call.fn = "failed" /\ Done) =>
        LET lines == SplitLines(stdout)
        IN  (\E i \in DOMAIN lines : MatchBatch(Split(lines[i])[1]) = <<>>) =>
                result = Raise("RuntimeError")

(* -------------------- submit: the temporary script --------------------- *)

\* C27: when submit has returned a job ID or has raised, the temporary file
\* it wrote the script to is gone.
TempFileRemoved ==
    (call.fn = "submit" /\ Done) => DOMAIN disk = {}

(* ------------------ jobs that are still in the queue ------------------- *)

\* C28: when status returns for a job whose reported state is RUNNING or
\* PENDING, it does not return FAILED.
QueuedNeverFailed ==
    (result \in {"RUNNING", "SUCCESS", "FAILED"}
        /\ Reported \in {"RUNNING", "PENDING"}) => result # "FAILED"

(***************************************************************************)
(* Part 7: collection of pyssub/sbatch.py and pyslurm/sbatch.py.  disk     *)
(* holds the collection file, a list of descriptions, and the saved        *)
(* scripts it names; a description is a record with the keys the file      *)
(* gives it.  call is the call, result its value.                          *)
(***************************************************************************)

\* the saved scripts the descriptions name
SavedScripts ==
    [f \in {"s1.json", "s2.json"} |->
        Encode(SBatchScript(<<"e">>, IF f = "s1.json" THEN <<>>
                                    ELSE <<"x">> \o Ref))]

\* the entries of a collection file: with macros and, as the second entry
\* in the docstring, with a name and a script only
Descriptions ==
    [name : {"a", "b"}, script : DOMAIN SavedScripts, macros : MacroDicts]
    \cup [name : {"a", "b"}, script : DOMAIN SavedScripts]

DescriptionLists == UNION {[1..k -> Descriptions] : k \in 0..MaxEntries}

\* rescue=None, or a list of job names
Rescues ==
    {[none |-> TRUE, names |-> <<>>]}
    \cup {[none |-> FALSE, names |-> l] :
             l \in {<<>>, <<"a">>, <<"b", "a">>, <<"c">>}}

\* lines 281-294: the loop over the descriptions, loaded is the mapping
\* scripts built so far
RECURSIVE CollectionLoop(_, _, _, _)
CollectionLoop(descriptionlist, rescue, files, loaded) ==
    IF descriptionlist = <<>> THEN Return(loaded)
    ELSE LET description == Head(descriptionlist)
             name == description.name
         IN  IF ~rescue.none
                   /\ ~\E i \in DOMAIN rescue.names : rescue.names[i] = name
             THEN CollectionLoop(Tail(descriptionlist), rescue, files, loaded)
             ELSE IF "macros" \notin DOMAIN description
             THEN Raise("KeyError")
             ELSE CollectionLoop(
                      Tail(descriptionlist), rescue, files,
                      [n \in DOMAIN loaded \cup {name} |->
                          IF n = name
                          THEN Macro(Load(files[description.script]),
                                     description.macros)
                          ELSE loaded[n]])

\* a collection file and its scripts are on disk; the governor and the
\* scheduler are idle
CollectionInit ==
    /\ input = <<>>
    /\ heap = [o \in {"arg", "copy"} |-> <<>>]
    /\ scripts = "arg"
    /\ jobids = <<>>
    /\ nmax = 0
    /\ pc = "idle"
    /\ exc = "none"
    /\ nnew = 0
    /\ todo = 0
    /\ hist = <<>>
    /\ slept = FALSE
    /\ queue = <<>>
    /\ other = 0
    /\ call \in [fn : {"collection"}, rescue : Rescues]
    /\ stdout = <<>>
    /\ result = Unset
    /\ command = <<>>
    /\ \E descriptionlist \in DescriptionLists :
          disk = [f \in DOMAIN SavedScripts \cup {"collection.json"} |->
                     IF f = "collection.json" THEN descriptionlist
                     ELSE SavedScripts[f]]

\* collection("collection.json", rescue)
Collection ==
    /\ call.fn = "collection"
    /\ result = Unset
    /\ result' = CollectionLoop(disk["collection.json"], call.rescue, disk, <<>>)
    /\ UNCHANGED <<call, command, disk, stdout>>
    /\ UNCHANGED gvars

CollectionNext == Collection

SpecCollection == CollectionInit /\ [][CollectionNext]_vars

\* C29: when collection has come back it has returned a mapping, and the
\* names of the mapping are the names of the entries of the file that are in
\* rescue (of all the entries when rescue is None): an entry without macros
\* is loaded like the others.
CollectionSelects ==
    (call.fn = "collection" /\ Done) =>
        LET descriptionlist == disk["collection.json"]
            taken == {i \in DOMAIN descriptionlist :
                         \/ call.rescue.none
                         \/ \E k \in DOMAIN call.rescue.names :
                               call.rescue.names[k] = descriptionlist[i].name}
        IN  /\ result.kind = "return"
            /\ DOMAIN result.val = {descriptionlist[i].name : i \in taken}
            /\ \A n \in DOMAIN result.val :
                  result.val[n].class = "SBatchScriptMacro"

(* ---------------------- the order of submission ------------------------ *)

\* C30 (as claimed): of two jobs of the pool that have both been submitted in
\* a run, the one inserted first was submitted first (sbatch gave it the
\* smaller job ID).
SubmittedInInsertionOrder ==
    \A i, j \in DOMAIN input :
        (i < j /\ input[i].name \in DOMAIN jobids
               /\ input[j].name \in DOMAIN jobids) =>
            jobids[input[i].name] < jobids[input[j].name]

\* C30: in a run the jobs are taken from the end of the pool: a job is
\* submitted only after every job inserted after it, so of two submitted
\* jobs the one inserted last was submitted first.
SubmittedLastInFirst ==
    \A i, j \in DOMAIN input :
        (i < j /\ input[i].name \in DOMAIN jobids) =>
            /\ input[j].name \in DOMAIN jobids
            /\ jobids[input[i].name] > jobids[input[j].name]

\* a run has returned after submitting a pool of MaxJobs jobs
SubmittedLastInFirstWitness ==
    /\ pc = "done"
    /\ Len(input) >= 3
    /\ \A i \in DOMAIN input : input[i].name \in DOMAIN jobids
    /\ jobids[input[3].name] < jobids[input[1].name]

====
